---------------------------- MODULE Spec2Model ----------------------------
(***************************************************************************)
(* Model of the JetBrains MCP stdio->SSE bridge (src/src/bridge.ts).       *)
(*                                                                         *)
(* The bridge is one Node.js process: every callback (a stdin line, a      *)
(* resolved fetch, a chunk of the SSE stream, a timer) runs to completion  *)
(* before the next one starts, and a promise continuation runs as a        *)
(* microtask right after the callback that settled the promise.  One       *)
(* action of this module is one such callback together with the            *)
(* continuations it releases.                                              *)
(***************************************************************************)
EXTENDS Integers, Sequences, FiniteSets, TLC

(***************************************************************************)
(* Bounds of the model.                                                    *)
(***************************************************************************)
\* Number of request lines read from stdin in one run.
MaxReq == 2

\* Number of request lines read in one run of the specification with fairness.
MaxFairReq == 1

\* Number of times transformRequest is applied to one request.
MaxPasses == 2

\* JSON-RPC identifiers a request line may carry (two lines may carry the same).
Ids == {1, 2}

\* Payloads of `endpoint` events: the submit paths the IDE hands out.
Endpoints == {"/message?s=A", "/message?s=B"}

Null == "null"

\* code of the error object main() synthesizes (bridge.ts line 228)
InternalError == -32603

Reqs == 1..MaxReq

VARIABLES
  \* ---- JBStdioSSEBridge fields
  jbMessageEndpoint,  \* string | null
  pendingRequests,    \* Map id -> waiter; here id -> request owning the entry, 0 = no entry
  isConnecting,       \* boolean
  reconnectTimer,     \* the timer handle stored by scheduleReconnect, 0 = null
  \* ---- positions of the asynchronous code
  connPc,             \* connect(): "fetching" (l.123), "reading" (l.134), "idle" (returned)
  liveTimers,         \* handles of the reconnection timers armed and neither fired nor
                      \* cleared; a handle is the timer's age: 1 is the one armed last
  pc,                 \* per stdin line: "unread", "waiting" (l.187), "awaiting" (l.224), "done"
  waitExpired,        \* per line: Date.now() - start > timeoutMs in waitForConnection
  promise,            \* per line: state of the promise sendRequest returned
  timeoutLive,        \* per line: the 30 s timer of l.195 is armed
  post,               \* per line: the POST of l.201: "none", "inflight" (issued, and its
                      \* promise has not rejected), "failed" (the catch of l.205 ran)
  \* ---- the two peers
  nextLine,           \* number of request lines read from stdin so far
  reqId,              \* per line: the id the request carries (0 before it is read)
  stdout,             \* per line: the lines main() wrote for it
  \* ---- history
  endpointLive,       \* the connection that delivered jbMessageEndpoint is still open
  queuedSawEndpoint,  \* per line: it is queued in waitForConnection and an endpoint event
                      \* was dispatched since it was queued
  postedStale,        \* some POST went to an endpoint that was null or whose connection
                      \* was no longer open
  postedOutOfOrder,   \* some POST was issued after the POST of a line read later
  overlapped          \* connect() was entered while an earlier connect() was still active

VARIABLES
  \* ---- the read loop of connect() seen byte by byte (the stream parser)
  content,            \* the bytes the upstream writes on one streaming connection
  wire,               \* the bytes not yet read
  undecoded,          \* bytes the TextDecoder holds back (an incomplete character)
  buffer,             \* the carry-over of l.128/138: the last, unterminated line
  emitted             \* the (event, data) pairs dispatched so far

VARIABLES
  \* ---- transformRequest seen as a function of the request (l.190)
  request,            \* the request a stdin line was parsed into
  forwarded,          \* what transformRequest made of it so far
  passes              \* number of times transformRequest was applied to it

pvars == <<content, wire, undecoded, buffer, emitted>>

tvars == <<request, forwarded, passes>>

vars == <<jbMessageEndpoint, pendingRequests, isConnecting, reconnectTimer, connPc,
          liveTimers, pc, waitExpired, promise, timeoutLive, post, nextLine,
          reqId, stdout, endpointLive, queuedSawEndpoint, postedStale, postedOutOfOrder,
          overlapped, content, wire, undecoded, buffer, emitted,
          request, forwarded, passes>>

(***************************************************************************)
(* The whole state as one record, so that a handler is a function from     *)
(* state to state and handlers compose the way the calls in the code do.   *)
(***************************************************************************)
State ==
  [ jbMessageEndpoint |-> jbMessageEndpoint, pendingRequests |-> pendingRequests,
    isConnecting |-> isConnecting, reconnectTimer |-> reconnectTimer,
    connPc |-> connPc, liveTimers |-> liveTimers, pc |-> pc,
    waitExpired |-> waitExpired, promise |-> promise, timeoutLive |-> timeoutLive,
    post |-> post, nextLine |-> nextLine, reqId |-> reqId,
    stdout |-> stdout, postedStale |-> postedStale,
    postedOutOfOrder |-> postedOutOfOrder,
    endpointLive |-> endpointLive, queuedSawEndpoint |-> queuedSawEndpoint,
    overlapped |-> overlapped ]

Becomes(s) ==
  /\ jbMessageEndpoint' = s.jbMessageEndpoint
  /\ pendingRequests' = s.pendingRequests
  /\ isConnecting' = s.isConnecting
  /\ reconnectTimer' = s.reconnectTimer
  /\ connPc' = s.connPc
  /\ liveTimers' = s.liveTimers
  /\ pc' = s.pc
  /\ waitExpired' = s.waitExpired
  /\ promise' = s.promise
  /\ timeoutLive' = s.timeoutLive
  /\ post' = s.post
  /\ nextLine' = s.nextLine
  /\ reqId' = s.reqId
  /\ stdout' = s.stdout
  /\ postedStale' = s.postedStale
  /\ postedOutOfOrder' = s.postedOutOfOrder
  /\ endpointLive' = s.endpointLive
  /\ queuedSawEndpoint' = s.queuedSawEndpoint
  /\ overlapped' = s.overlapped

(***************************************************************************)
(* Path translator, l.46-92.  A string is a sequence of characters.        *)
(***************************************************************************)

\* String.prototype.startsWith
StartsWith(str, prefix) ==
  Len(str) >= Len(prefix) /\ SubSeq(str, 1, Len(prefix)) = prefix

Sep == "/"

HomeRoot == <<"/", "h", "o", "m", "e", "/">>
UsersRoot == <<"/", "U", "s", "e", "r", "s", "/">>
TmpRoot == <<"/", "t", "m", "p", "/">>
WslRoot == <<"/", "/", "w", "s", "l", ".", "l", "o", "c", "a", "l", "h", "o", "s", "t">>
WslRootBackslash ==
  <<"\\", "\\", "w", "s", "l", ".", "l", "o", "c", "a", "l", "h", "o", "s", "t">>
UbuntuShare == <<"/", "U", "b", "u", "n", "t", "u">>
DevDir == <<"/", "d", "e", "v", "/">>

\* [A-Za-z]
Letters ==
  {"a", "b", "c", "d", "e", "f", "g", "h", "i", "j", "k", "l", "m", "n", "o", "p", "q",
   "r", "s", "t", "u", "v", "w", "x", "y", "z", "A", "B", "C", "D", "E", "F", "G", "H",
   "I", "J", "K", "L", "M", "N", "O", "P", "Q", "R", "S", "T", "U", "V", "W", "X", "Y",
   "Z"}

\* classifyPath, l.57-63
ClassifyPath(p) ==
  IF p = <<>> THEN "relative"
  ELSE IF StartsWith(p, WslRoot) \/ StartsWith(p, WslRootBackslash) THEN "wsl"
  ELSE IF StartsWith(p, HomeRoot) \/ StartsWith(p, UsersRoot) \/ StartsWith(p, TmpRoot)
    THEN "unix"
  ELSE IF Len(p) >= 2 /\ p[1] \in Letters /\ p[2] = ":" THEN "windows"
  ELSE "relative"

\* position of the first separator of str at or after position k, 0 if there is none
NextSep(str, k) ==
  IF \E j \in k..Len(str) : str[j] = Sep
    THEN CHOOSE j \in k..Len(str) :
           str[j] = Sep /\ \A h \in k..(j - 1) : str[h] # Sep
    ELSE 0

\* the regular expression /\/@[^/]+\// matches at position i: a separator, an
\* '@', one character or more that are no separator, a separator
WorkspaceAt(str, i) ==
  /\ i + 1 <= Len(str)
  /\ str[i] = Sep
  /\ str[i + 1] = "@"
  /\ NextSep(str, i + 2) >= i + 3

\* str.replace(/\/@[^/]+\//, '/'): the leftmost match, and only that one, becomes '/'
StripWorkspace(str) ==
  IF \E i \in 1..Len(str) : WorkspaceAt(str, i)
    THEN LET i == CHOOSE i \in 1..Len(str) :
                    WorkspaceAt(str, i) /\ \A h \in 1..(i - 1) : ~WorkspaceAt(str, h)
         IN SubSeq(str, 1, i - 1) \o <<Sep>>
              \o SubSeq(str, NextSep(str, i + 2) + 1, Len(str))
    ELSE str

\* unixToWslPath with one leading separator in the prefix.
UnixToWslPathOneSlash(unixPath) ==
  Tail(WslRoot) \o UbuntuShare \o StripWorkspace(unixPath)

\* unixToWslPath, l.46-49
UnixToWslPath(unixPath) == WslRoot \o UbuntuShare \o StripWorkspace(unixPath)

\* position of the last separator of str, 0 if there is none
LastSep(str) ==
  IF \E j \in 1..Len(str) : str[j] = Sep
    THEN CHOOSE j \in 1..Len(str) :
           str[j] = Sep /\ \A h \in (j + 1)..Len(str) : str[h] # Sep
    ELSE 0

\* extractProjectSubfolder, l.51-55: the match of /\/dev\/([^/]+)$/ is the last
\* component when it is not empty and follows "/dev/"; <<>> stands for null
ExtractProjectSubfolder(projectPath) ==
  LET normalized == StripWorkspace(projectPath)
      last == LastSep(normalized)
  IN IF /\ last >= Len(DevDir)
        /\ last < Len(normalized)
        /\ SubSeq(normalized, last - Len(DevDir) + 1, last) = DevDir
       THEN SubSeq(normalized, last + 1, Len(normalized))
       ELSE <<>>

\* values of the arguments of a request: a string, another JSON value, or no value
StringValue(str) == [kind |-> "string", str |-> str]
NumberValue == [kind |-> "number", str |-> <<>>]
Absent == [kind |-> "absent", str |-> <<>>]

\* `v && typeof v === 'string'`, l.71 and l.81
TruthyString(v) == v.kind = "string" /\ v.str # <<>>

ToolsCall == "tools/call"

ProjectPathKey == "projectPath"

\* relativePathKeys, l.79
RelativePathKeys ==
  {"directoryPath", "filePath", "pathInProject", "path", "subDirectoryRelativePath",
   "directoryToSearch", "file_path"}

\* the argument keys of the requests of the model: "query" is under no rule
ArgKeys == {ProjectPathKey, "query"} \cup RelativePathKeys

\* transformRequest, l.65-92
TransformRequest(req) ==
  IF req.method # ToolsCall \/ ~req.hasArguments THEN req
  ELSE
    LET args == req.arguments
        isUnix == /\ TruthyString(args[ProjectPathKey])
                  /\ ClassifyPath(args[ProjectPathKey].str) = "unix"
        projectSubfolder ==
          IF isUnix THEN ExtractProjectSubfolder(args[ProjectPathKey].str) ELSE <<>>
        Rewritten(key) ==
          IF key = ProjectPathKey /\ isUnix
            THEN StringValue(UnixToWslPath(args[key].str))
          ELSE IF /\ projectSubfolder # <<>>
                  /\ key \in RelativePathKeys
                  /\ TruthyString(args[key])
                  /\ ~StartsWith(args[key].str, <<Sep>>)
                  /\ ~StartsWith(args[key].str, projectSubfolder)
            THEN StringValue(projectSubfolder \o <<Sep>> \o args[key].str)
          ELSE args[key]
    IN [req EXCEPT !.arguments = [key \in ArgKeys |-> Rewritten(key)]]

\* the requests of the model
U == <<"u">>
Pj == <<"p", "j">>
AtW == <<"@", "w">>

ProjectPaths ==
  { HomeRoot \o U \o DevDir \o Pj,
    TmpRoot \o AtW \o DevDir \o Pj,
    UsersRoot \o U \o <<Sep>> \o AtW \o DevDir \o Pj,
    HomeRoot \o AtW,
    HomeRoot \o U \o DevDir \o AtW \o <<Sep>>,
    HomeRoot \o U \o <<Sep>> \o Pj,
    WslRoot \o UbuntuShare \o HomeRoot \o U \o DevDir \o Pj,
    Tail(DevDir) \o Pj,
    <<"C", ":">> \o DevDir \o Pj,
    <<>> }

SiblingPaths ==
  { <<>>,
    <<"s", "r", "c">>,
    TmpRoot \o <<"x">>,
    Pj \o <<Sep>> \o <<"s", "r", "c">>,
    Pj \o <<"x">>,
    <<"C", ":", "/", "x">> }

NoArguments == [key \in ArgKeys |-> Absent]

Arguments ==
  { [NoArguments EXCEPT ![ProjectPathKey] = pp, !["path"] = p, !["file_path"] = f,
                        !["query"] = q] :
      pp \in {Absent, NumberValue} \cup {StringValue(s) : s \in ProjectPaths},
      p \in {Absent, NumberValue} \cup {StringValue(s) : s \in SiblingPaths},
      f \in {Absent, StringValue(<<"a">>), StringValue(Pj)},
      q \in {Absent, StringValue(<<"s", "r", "c">>)} }

Requests ==
  { [method |-> m, hasArguments |-> TRUE, arguments |-> a] :
      m \in {ToolsCall, "tools/list"}, a \in Arguments }
    \cup { [method |-> m, hasArguments |-> FALSE, arguments |-> NoArguments] :
             m \in {ToolsCall, "tools/list"} }

NoRequest == [method |-> "", hasArguments |-> FALSE, arguments |-> NoArguments]

TransformIdle ==
  /\ request = NoRequest
  /\ forwarded = NoRequest
  /\ passes = 0

(***************************************************************************)
(* Connection manager                                                      *)
(***************************************************************************)

\* setTimeout: the new timer is the youngest one, every other live timer and the
\* handle the field holds are one timer older.
Armed(s) ==
  [s EXCEPT !.liveTimers = {1} \cup {u + 1 : u \in @},
            !.reconnectTimer = IF @ = 0 THEN 0 ELSE @ + 1]

\* clearTimeout(h): no effect on a timer that fired already, or on null
Cleared(s, h) == [s EXCEPT !.liveTimers = @ \ {h}]

\* scheduleReconnect with the handle of the new timer dropped instead of stored.
ScheduleReconnectHandleDropped(s) == Armed(Cleared(s, s.reconnectTimer))

\* scheduleReconnect, l.109-115:
\*   if (this.reconnectTimer) clearTimeout(this.reconnectTimer);
\*   this.reconnectTimer = setTimeout(...)
ScheduleReconnect(s) ==
  [Armed(Cleared(s, s.reconnectTimer)) EXCEPT !.reconnectTimer = 1]

\* connect() up to its first await: the isConnecting guard, then the fetch is issued.
ConnectEnter(s) ==
  IF s.isConnecting THEN s
  ELSE [s EXCEPT !.isConnecting = TRUE,
                 !.connPc = "fetching",
                 !.overlapped = @ \/ (s.connPc # "idle")]

\* a connection loss that also empties the registry.
ConnectionOverRegistryCleared(s) ==
  [s EXCEPT !.connPc = "idle", !.endpointLive = FALSE,
            !.pendingRequests = [i \in Ids |-> 0]]

\* The connection is gone and connect() is about to return: whatever endpoint it
\* delivered is no longer that of an open connection.
ConnectionOver(s) == [s EXCEPT !.connPc = "idle", !.endpointLive = FALSE]

\* the endpoint left in place when the connection is lost.
EndpointKept(s) == s

\* this.jbMessageEndpoint = null (l.135 and l.143)
EndpointCleared(s) == [s EXCEPT !.jbMessageEndpoint = Null]

\* a connection loss that arms no timer.
ReconnectNotScheduled(s) ==
  [EndpointCleared(ConnectionOver(s)) EXCEPT !.isConnecting = FALSE]

\* the catch block of connect(), l.141-146
ConnectCatch(s) ==
  ScheduleReconnect([EndpointCleared(ConnectionOver(s)) EXCEPT !.isConnecting = FALSE])

\* l.135: reader.read() reported done
ConnectDone(s) == ScheduleReconnect(EndpointCleared(ConnectionOver(s)))

\* l.124-131: the fetch resolved with an ok response that has a body
ConnectOpened(s) == [s EXCEPT !.isConnecting = FALSE, !.connPc = "reading"]

\* the callback of a timer that fires again and again (setInterval).
ReconnectFiredRepeating(s, t) == ConnectEnter(s)

\* the callback of the reconnection timer, l.111-114
ReconnectFired(s, t) == ConnectEnter([s EXCEPT !.liveTimers = @ \ {t}])

(***************************************************************************)
(* Request correlator                                                      *)
(***************************************************************************)

\* the line main() writes for a response received from upstream (l.225)
ResultLine(msg) ==
  [id |-> msg.id, kind |-> "result", code |-> 0, message |-> ""]

\* the line main() synthesizes for a failed request (l.228)
ErrorLine(id, m) ==
  [id |-> id, kind |-> "error", code |-> InternalError, message |-> m]

\* resolve/reject called as plain callbacks: every call reaches the caller.
SettleEveryCall(s, r, line) ==
  [s EXCEPT !.promise[r] = IF line.kind = "result" THEN "resolved" ELSE "rejected",
            !.stdout[r] = Append(@, line),
            !.pc[r] = "done"]

\* resolve(r) / reject(e) of the promise sendRequest returned (l.194), followed by
\* the continuation of main()'s await (l.224-229): only the first call settles the
\* promise, and the continuation writes one line.
Settle(s, r, line) ==
  IF s.promise[r] = "pending"
    THEN [s EXCEPT !.promise[r] = IF line.kind = "result" THEN "resolved" ELSE "rejected",
                   !.stdout[r] = Append(@, line),
                   !.pc[r] = "done"]
    ELSE s

\* l.190-206: arm the 30 s timer, register the waiter under the request's id
\* (Map.set replaces an entry already there), issue the POST to the endpoint.
Submit(s, r) ==
  [s EXCEPT !.pendingRequests[s.reqId[r]] = r,
            !.timeoutLive[r] = TRUE,
            !.post[r] = "inflight",
            !.postedStale = @ \/ ~(s.jbMessageEndpoint # Null
                                     /\ s.connPc = "reading"
                                     /\ s.endpointLive),
            !.postedOutOfOrder = @ \/ (\E q \in Reqs : q > r /\ s.post[q] # "none"),
            !.pc[r] = "awaiting"]

\* sendRequest up to its first suspension, l.184-188
SendRequest(s, r) ==
  IF s.jbMessageEndpoint = Null
    THEN [s EXCEPT !.pc[r] = "waiting"]
    ELSE Submit(s, r)

\* rl.on('line'): the next line of stdin parsed as a request carrying `id`
LineRead(s, id) ==
  SendRequest([s EXCEPT !.nextLine = @ + 1,
                        !.reqId[s.nextLine + 1] = id,
                        !.promise[s.nextLine + 1] = "pending"],
              s.nextLine + 1)

\* handleResponse that gives a Response to the oldest waiter, whatever its id.
HandleResponseFifo(s, msg) ==
  IF msg.id # 0 /\ \E r \in Reqs : s.pc[r] = "awaiting"
    THEN LET oldest == CHOOSE r \in Reqs :
                         /\ s.pc[r] = "awaiting"
                         /\ \A q \in Reqs : s.pc[q] = "awaiting" => r <= q
         IN [Settle([s EXCEPT !.timeoutLive[oldest] = FALSE], oldest, ResultLine(msg))
               EXCEPT !.pendingRequests[s.reqId[oldest]] = 0]
    ELSE s

\* handleResponse whose failure on an identifier without waiter escapes the
\* try of l.158 and reaches the catch of connect().
HandleResponseUncaught(s, msg) ==
  IF msg.id # 0 /\ s.pendingRequests[msg.id] # 0
    THEN [Settle([s EXCEPT !.timeoutLive[s.pendingRequests[msg.id]] = FALSE],
                 s.pendingRequests[msg.id], ResultLine(msg))
            EXCEPT !.pendingRequests[msg.id] = 0]
    ELSE ConnectCatch(s)

\* handleResponse, l.166-171: the waiter's resolve clears its timer and resolves
\* the promise (l.197); then the entry is deleted.
HandleResponse(s, msg) ==
  IF msg.id # 0 /\ s.pendingRequests[msg.id] # 0
    THEN [Settle([s EXCEPT !.timeoutLive[s.pendingRequests[msg.id]] = FALSE],
                 s.pendingRequests[msg.id], ResultLine(msg))
            EXCEPT !.pendingRequests[msg.id] = 0]
    ELSE s

\* the 30 s timer's callback without the reject.
RequestTimedOutSilent(s, r) ==
  [s EXCEPT !.timeoutLive[r] = FALSE, !.pendingRequests[s.reqId[r]] = 0]

\* the 30 s timer's callback without the delete.
RequestTimedOutKeepEntry(s, r) ==
  Settle([s EXCEPT !.timeoutLive[r] = FALSE], r,
         ErrorLine(s.reqId[r], "Error: Request timeout (30s)"))

\* the 30 s timer's callback that also aborts the POST, whose promise rejects.
RequestTimedOutAbortsPost(s, r) ==
  Settle([s EXCEPT !.timeoutLive[r] = FALSE,
                   !.pendingRequests[s.reqId[r]] = 0,
                   !.post[r] = "failed"],
         r, ErrorLine(s.reqId[r], "Error: Request timeout (30s)"))

\* the 30 s timer's callback, l.195
RequestTimedOut(s, r) ==
  Settle([s EXCEPT !.timeoutLive[r] = FALSE,
                   !.pendingRequests[s.reqId[r]] = 0],
         r, ErrorLine(s.reqId[r], "Error: Request timeout (30s)"))

\* the catch of the POST without the delete.
PostFailedKeepEntry(s, r) ==
  Settle([s EXCEPT !.post[r] = "failed", !.timeoutLive[r] = FALSE],
         r, ErrorLine(s.reqId[r], "TypeError: fetch failed"))

\* the catch of the POST, l.205
PostFailed(s, r) ==
  Settle([s EXCEPT !.post[r] = "failed",
                   !.pendingRequests[s.reqId[r]] = 0,
                   !.timeoutLive[r] = FALSE],
         r, ErrorLine(s.reqId[r], "TypeError: fetch failed"))

\* a tick of waitForConnection's interval that finds the endpoint set (l.178),
\* followed by the rest of sendRequest
PollFoundEndpoint(s, r) == Submit([s EXCEPT !.queuedSawEndpoint[r] = FALSE], r)

\* a tick that finds no endpoint after the 20 s have passed (l.179)
PollTimedOut(s, r) ==
  Settle([s EXCEPT !.queuedSawEndpoint[r] = FALSE], r,
         ErrorLine(s.reqId[r], "Error: Connection timeout"))

(***************************************************************************)
(* Dispatch of the (event, data) pairs processLines emits, l.155-160       *)
(***************************************************************************)
EndpointEvents ==
  { [event |-> "endpoint", data |-> e, id |-> 0, json |-> TRUE] : e \in Endpoints }

\* A message event carries a Response; id 0 stands for a Response without id.
MessageEvents ==
  { [event |-> "message", data |-> "", id |-> i, json |-> TRUE] : i \in Ids \cup {0} }

\* a message whose data is no JSON, and an event of another name
OtherEvents ==
  { [event |-> "message", data |-> "", id |-> 0, json |-> FALSE],
    [event |-> "ping", data |-> "", id |-> 0, json |-> TRUE] }

Events == EndpointEvents \cup MessageEvents \cup OtherEvents

\* l.156: the endpoint is stored and replaces the one known before
EndpointLearned(s, ev) ==
  [s EXCEPT !.jbMessageEndpoint = ev.data,
            !.endpointLive = TRUE,
            !.queuedSawEndpoint = [r \in Reqs |-> s.pc[r] = "waiting"]]

DispatchEvent(s, ev) ==
  IF ev.event = "endpoint" THEN EndpointLearned(s, ev)
  ELSE IF ev.event = "message" /\ ev.json THEN HandleResponse(s, ev)
  ELSE s

\* one iteration of the read loop, l.134-139, on a chunk whose complete lines
\* make processLines emit the pairs `evs`
RECURSIVE ProcessEvents(_, _)
ProcessEvents(s, evs) ==
  IF evs = <<>> THEN s
  ELSE ProcessEvents(DispatchEvent(s, Head(evs)), Tail(evs))

\* the events that change the state when dispatched
Effective == {ev \in Events : ev.event = "endpoint" \/ (ev.event = "message" /\ ev.id # 0)}

\* The pairs one chunk makes processLines emit: one, or two.  An event that is
\* not in Effective is dispatched without effect, so a longer batch that holds
\* one is a shorter batch.
ChunkBatches ==
  { <<e>> : e \in Events } \cup { <<e1, e2>> : e1 \in Effective, e2 \in Effective }


(***************************************************************************)
(* The bridge: initial state and actions                                   *)
(***************************************************************************)

\* main() has constructed the bridge: connect() runs up to its fetch (l.100-123).
BridgeInit ==
  /\ jbMessageEndpoint = Null
  /\ pendingRequests = [i \in Ids |-> 0]
  /\ isConnecting = TRUE
  /\ reconnectTimer = 0
  /\ connPc = "fetching"
  /\ liveTimers = {}
  /\ pc = [r \in Reqs |-> "unread"]
  /\ waitExpired = [r \in Reqs |-> FALSE]
  /\ promise = [r \in Reqs |-> "none"]
  /\ timeoutLive = [r \in Reqs |-> FALSE]
  /\ post = [r \in Reqs |-> "none"]
  /\ nextLine = 0
  /\ reqId = [r \in Reqs |-> 0]
  /\ stdout = [r \in Reqs |-> <<>>]
  /\ postedStale = FALSE
  /\ postedOutOfOrder = FALSE
  /\ endpointLive = FALSE
  /\ queuedSawEndpoint = [r \in Reqs |-> FALSE]
  /\ overlapped = FALSE

ParserIdle ==
  /\ content = <<>>
  /\ wire = <<>>
  /\ undecoded = <<>>
  /\ buffer = <<>>
  /\ emitted = <<>>

Init == BridgeInit /\ ParserIdle /\ TransformIdle

\* the fetch of l.123 resolves with an ok response
FetchOk ==
  /\ connPc = "fetching"
  /\ Becomes(ConnectOpened(State))
  /\ UNCHANGED <<pvars, tvars>>

\* the fetch rejects, or resolves with a bad status or no body (l.124)
FetchFail ==
  /\ connPc = "fetching"
  /\ Becomes(ConnectCatch(State))
  /\ UNCHANGED <<pvars, tvars>>

\* reader.read() delivers a chunk
ReadChunk ==
  /\ connPc = "reading"
  /\ \E evs \in ChunkBatches : Becomes(ProcessEvents(State, evs))
  /\ UNCHANGED <<pvars, tvars>>

\* reader.read() reports the end of the stream
StreamEnd ==
  /\ connPc = "reading"
  /\ Becomes(ConnectDone(State))
  /\ UNCHANGED <<pvars, tvars>>

\* reader.read() rejects
StreamError ==
  /\ connPc = "reading"
  /\ Becomes(ConnectCatch(State))
  /\ UNCHANGED <<pvars, tvars>>

\* a reconnection timer fires, 2 s after it was armed
ReconnectTimerFire ==
  /\ \E t \in liveTimers : Becomes(ReconnectFired(State, t))
  /\ UNCHANGED <<pvars, tvars>>

\* stdin delivers a well-formed request line
ReadLine ==
  /\ nextLine < MaxReq
  /\ \E id \in Ids : Becomes(LineRead(State, id))
  /\ UNCHANGED <<pvars, tvars>>

ReadLineFair ==
  /\ nextLine < MaxFairReq
  /\ ReadLine

\* 20 s have passed since request r entered waitForConnection
WaitDeadline(r) ==
  /\ pc[r] = "waiting"
  /\ ~waitExpired[r]
  /\ Becomes([State EXCEPT !.waitExpired[r] = TRUE])
  /\ UNCHANGED <<pvars, tvars>>

\* a 100 ms tick of r's interval in waitForConnection (l.177-180); a tick that
\* finds no endpoint before the 20 s have passed changes nothing
PollTick(r) ==
  /\ pc[r] = "waiting"
  /\ \/ jbMessageEndpoint # Null /\ Becomes(PollFoundEndpoint(State, r))
     \/ jbMessageEndpoint = Null /\ waitExpired[r] /\ Becomes(PollTimedOut(State, r))
  /\ UNCHANGED <<pvars, tvars>>

\* r's 30 s timer fires
RequestTimeout(r) ==
  /\ timeoutLive[r]
  /\ Becomes(RequestTimedOut(State, r))
  /\ UNCHANGED <<pvars, tvars>>

\* r's POST rejects.  A POST that is fulfilled runs no code of the bridge (the
\* fetch of l.201 has a catch and no then), so there is no action for it.
PostFail(r) ==
  /\ post[r] = "inflight"
  /\ Becomes(PostFailed(State, r))
  /\ UNCHANGED <<pvars, tvars>>

Next ==
  \/ FetchOk
  \/ FetchFail
  \/ ReadChunk
  \/ StreamEnd
  \/ StreamError
  \/ ReconnectTimerFire
  \/ ReadLine
  \/ \E r \in Reqs : WaitDeadline(r)
  \/ \E r \in Reqs : PollTick(r)
  \/ \E r \in Reqs : RequestTimeout(r)
  \/ \E r \in Reqs : PostFail(r)

NextFair ==
  \/ FetchOk
  \/ FetchFail
  \/ ReadChunk
  \/ StreamEnd
  \/ StreamError
  \/ ReconnectTimerFire
  \/ ReadLineFair
  \/ \E r \in Reqs : WaitDeadline(r)
  \/ \E r \in Reqs : PollTick(r)
  \/ \E r \in Reqs : RequestTimeout(r)
  \/ \E r \in Reqs : PostFail(r)

Spec == Init /\ [][Next]_vars

\* Node's timers fire: a reconnection timer, the 100 ms interval and the 20 s
\* clock of waitForConnection, the 30 s timer of a request.  Nothing obliges the
\* peers: stdin may stay silent, the upstream may never answer.
Fairness ==
  /\ WF_vars(ReconnectTimerFire)
  /\ \A r \in Reqs : WF_vars(WaitDeadline(r))
  /\ \A r \in Reqs : WF_vars(PollTick(r))
  /\ \A r \in Reqs : WF_vars(RequestTimeout(r))

FairSpec == Init /\ [][NextFair]_vars /\ Fairness


(***************************************************************************)
(* The stream parser: the read loop of connect() and processLines, on      *)
(* bytes.  A string is a sequence of characters, a chunk a sequence of     *)
(* bytes; "C3" "A9" are the two bytes of one character, written "e'".      *)
(***************************************************************************)
NL == "\n"

DataPrefix == <<"d", "a", "t", "a", ":", " ">>
EventPrefix == <<"e", "v", "e", "n", "t", ":", " ">>
EndpointName == <<"e", "n", "d", "p", "o", "i", "n", "t">>
MessageName == <<"m", "e", "s", "s", "a", "g", "e">>

\* what an upstream writes: a frame is a data line followed by its event line
DataLine(d) == DataPrefix \o d \o <<NL>>
EventLine(e) == EventPrefix \o e \o <<NL>>
Frame(e, d) ==
  [kind |-> "frame", event |-> e, data |-> d, bytes |-> DataLine(d) \o EventLine(e)]

EndpointFrame == Frame(EndpointName, <<"/", "m">>)
MessageFrame == Frame(MessageName, <<"{", "C3", "A9", "}">>)
BlankLine == [kind |-> "blank", event |-> <<>>, data |-> <<>>, bytes |-> <<NL>>]

\* an event line that no data line precedes
StrayEvent ==
  [kind |-> "stray", event |-> MessageName, data |-> <<>>, bytes |-> EventLine(MessageName)]

Units == {EndpointFrame, MessageFrame, BlankLine, StrayEvent}

\* the streams of the model: up to two frames, blank lines between them or not
Contents ==
  { <<u>> : u \in Units \ {BlankLine} }
    \cup { <<u, v>> : u \in Units \ {BlankLine}, v \in Units }
    \cup { <<u, BlankLine, v>> : u \in Units \ {BlankLine}, v \in Units \ {BlankLine} }

RECURSIVE Flatten(_)
Flatten(units) ==
  IF units = <<>> THEN <<>> ELSE Head(units).bytes \o Flatten(Tail(units))

WellFramed(units) == \A k \in 1..Len(units) : units[k].kind \in {"frame", "blank"}

\* decoder.decode(value, {stream: true}), l.136: the characters of the bytes held
\* back before followed by the chunk; an incomplete character at the end is held
\* back for the next call.
RECURSIVE DecodeFrom(_, _)
DecodeFrom(bs, text) ==
  IF bs = <<>> THEN [text |-> text, held |-> <<>>]
  ELSE IF Head(bs) = "C3"
    THEN IF Len(bs) = 1 THEN [text |-> text, held |-> bs]
         ELSE IF bs[2] = "A9"
           THEN DecodeFrom(SubSeq(bs, 3, Len(bs)), Append(text, "e'"))
           ELSE DecodeFrom(Tail(bs), Append(text, "?"))
  ELSE DecodeFrom(Tail(bs), Append(text, Head(bs)))

Decode(bs) == DecodeFrom(bs, <<>>)

\* buffer.split('\n'), l.137: the pieces between the newlines, at least one
RECURSIVE Split(_, _)
Split(str, piece) ==
  IF str = <<>> THEN <<piece>>
  ELSE IF Head(str) = NL THEN <<piece>> \o Split(Tail(str), <<>>)
  ELSE Split(Tail(str), Append(piece, Head(str)))

\* String.prototype.slice(n)
Slice(str, n) == SubSeq(str, n + 1, Len(str))

IsSpace(c) == c \in {" ", "\t", "\r"}

\* String.prototype.trim()
RECURSIVE Trim(_)
Trim(str) ==
  IF str = <<>> THEN str
  ELSE IF IsSpace(Head(str)) THEN Trim(Tail(str))
  ELSE IF IsSpace(str[Len(str)]) THEN Trim(SubSeq(str, 1, Len(str) - 1))
  ELSE str

\* the loop of processLines without the reset of l.160
RECURSIVE ProcessFromSlotsKept(_, _, _)
ProcessFromSlotsKept(lines, pendingData, pendingEvent) ==
  IF lines = <<>> THEN <<>>
  ELSE IF StartsWith(Head(lines), DataPrefix)
    THEN ProcessFromSlotsKept(Tail(lines), Slice(Head(lines), 6), pendingEvent)
  ELSE IF StartsWith(Head(lines), EventPrefix)
    THEN IF pendingData # <<>> /\ Trim(Slice(Head(lines), 7)) # <<>>
           THEN (IF Trim(Slice(Head(lines), 7)) \in {EndpointName, MessageName}
                   THEN <<[event |-> Trim(Slice(Head(lines), 7)), data |-> pendingData]>>
                   ELSE <<>>)
                \o ProcessFromSlotsKept(Tail(lines), pendingData,
                                        Trim(Slice(Head(lines), 7)))
           ELSE ProcessFromSlotsKept(Tail(lines), pendingData,
                                     Trim(Slice(Head(lines), 7)))
  ELSE ProcessFromSlotsKept(Tail(lines), pendingData, pendingEvent)

\* the loop of processLines, l.151-163, from the slots pendingData and pendingEvent;
\* the result is the sequence of pairs it dispatches (l.156-158)
RECURSIVE ProcessFrom(_, _, _)
ProcessFrom(lines, pendingData, pendingEvent) ==
  IF lines = <<>> THEN <<>>
  ELSE IF StartsWith(Head(lines), DataPrefix)
    THEN ProcessFrom(Tail(lines), Slice(Head(lines), 6), pendingEvent)
  ELSE IF StartsWith(Head(lines), EventPrefix)
    THEN IF pendingData # <<>> /\ Trim(Slice(Head(lines), 7)) # <<>>
           THEN (IF Trim(Slice(Head(lines), 7)) \in {EndpointName, MessageName}
                   THEN <<[event |-> Trim(Slice(Head(lines), 7)), data |-> pendingData]>>
                   ELSE <<>>)
                \o ProcessFrom(Tail(lines), <<>>, <<>>)
           ELSE ProcessFrom(Tail(lines), pendingData, Trim(Slice(Head(lines), 7)))
  ELSE ProcessFrom(Tail(lines), pendingData, pendingEvent)

\* processLines(lines): both slots start empty on every call (l.150)
ProcessLines(lines) == ProcessFrom(lines, <<>>, <<>>)

\* lines.pop(), l.138
AllButLast(seq) == SubSeq(seq, 1, Len(seq) - 1)
Last(seq) == seq[Len(seq)]

\* the stream of one connection is about to be read
ParserInit ==
  /\ BridgeInit
  /\ TransformIdle
  /\ content \in Contents
  /\ wire = Flatten(content)
  /\ undecoded = <<>>
  /\ buffer = <<>>
  /\ emitted = <<>>

\* one iteration of the read loop, l.134-139, on a chunk of n bytes
ReadBytes(n) ==
  LET decoded == Decode(undecoded \o SubSeq(wire, 1, n))
      lines == Split(buffer \o decoded.text, <<>>)
  IN /\ wire' = SubSeq(wire, n + 1, Len(wire))
     /\ undecoded' = decoded.held
     /\ buffer' = Last(lines)
     /\ emitted' = emitted \o ProcessLines(AllButLast(lines))
     /\ UNCHANGED <<content, jbMessageEndpoint, pendingRequests, isConnecting,
                    reconnectTimer, connPc, liveTimers, pc, waitExpired, promise,
                    timeoutLive, post, nextLine, reqId, stdout, endpointLive,
                    queuedSawEndpoint, postedStale, postedOutOfOrder, overlapped,
                    request, forwarded, passes>>

ParserNext == \E n \in 1..Len(wire) : ReadBytes(n)

ParserSpec == ParserInit /\ [][ParserNext]_vars

\* what the read loop dispatches when the whole stream arrives as one chunk
OneChunk(units) ==
  ProcessLines(AllButLast(Split(Decode(Flatten(units)).text, <<>>)))

(***************************************************************************)
(* transformRequest on the requests of the model                           *)
(***************************************************************************)
TransformInit ==
  /\ BridgeInit
  /\ ParserIdle
  /\ request \in Requests
  /\ forwarded = request
  /\ passes = 0

\* transformRequest is applied to what it returned before (the request itself
\* the first time, l.190)
TransformPass ==
  /\ passes < MaxPasses
  /\ forwarded' = TransformRequest(forwarded)
  /\ passes' = passes + 1
  /\ UNCHANGED <<request, pvars, jbMessageEndpoint, pendingRequests, isConnecting,
                 reconnectTimer, connPc, liveTimers, pc, waitExpired, promise,
                 timeoutLive, post, nextLine, reqId, stdout, endpointLive,
                 queuedSawEndpoint, postedStale, postedOutOfOrder, overlapped>>

TransformNext == TransformPass

TransformSpec == TransformInit /\ [][TransformNext]_vars

(***************************************************************************)
(* Claims                                                                  *)
(***************************************************************************)
Settled(r) == promise[r] \in {"resolved", "rejected"}

\* C1: every waiter is settled exactly once.  The caller of sendRequest observes
\* at most one outcome, the one that settled the promise first (a result for a
\* resolution, an error for a rejection), whatever resolve and reject calls the
\* response, the 30 s timer and the POST's catch make afterwards; and a waiter
\* that is not settled yet still has its 30 s timer armed, so it will be.
C1_SettledExactlyOnce ==
  \A r \in Reqs :
    /\ Len(stdout[r]) <= 1
    /\ Settled(r) <=> Len(stdout[r]) = 1
    /\ promise[r] = "resolved" => stdout[r][1].kind = "result"
    /\ promise[r] = "rejected" => stdout[r][1].kind = "error"
    /\ pc[r] = "awaiting" => (promise[r] = "pending" /\ timeoutLive[r])

\* C1 witness: a request resolved by its response whose POST failed afterwards
\* (reject called on the settled promise), with one line written.
C1_Witness ==
  \E r \in Reqs :
    promise[r] = "resolved" /\ post[r] = "failed" /\ Len(stdout[r]) = 1

\* C2: the registry never leaks.  Every identifier that has an entry in
\* pendingRequests eventually has none.
C2_RegistryNeverLeaks ==
  \A i \in Ids : (pendingRequests[i] # 0) ~> (pendingRequests[i] = 0)

\* C2 witness: an entry is registered while the connection is lost.
C2_Witness ==
  \E i \in Ids : pendingRequests[i] # 0 /\ connPc = "idle"

\* C3: no POST goes to an endpoint that is null or whose connection has closed;
\* an endpoint is known only while the connection that delivered it is being
\* read, so after a stream end or a connection error it is null until an
\* endpoint event arrives on a new connection.
C3_EndpointOfOpenConnection ==
  /\ ~postedStale
  /\ jbMessageEndpoint # Null => (endpointLive /\ connPc = "reading")

\* C3 witness: one request was POSTed, then the connection was lost, and a
\* second request is queued without an endpoint.
C3_Witness ==
  \E r, q \in Reqs :
    post[r] # "none" /\ pc[q] = "waiting" /\ connPc = "idle" /\ jbMessageEndpoint = Null

ConnTimeoutLine(r) == ErrorLine(reqId[r], "Error: Connection timeout")

\* C4: for a stream in which every data line is immediately followed by its
\* event line, the pairs dispatched once the stream has been read are those
\* dispatched when it arrives as one chunk, however it was split into chunks.
C4_ChunkingInvariant ==
  (wire = <<>> /\ WellFramed(content)) => emitted = OneChunk(content)

\* C5: a call made while no endpoint is known suspends without a waiter and
\* without a POST; once an endpoint event has arrived while a caller is queued,
\* the caller leaves the queue only by issuing its one POST; a caller leaves the
\* queue by failure only after 20 s without any endpoint event, with the
\* connection-timeout error, no POST and no waiter.
C5_QueuedCallers ==
  [][\A r \in Reqs :
       /\ pc'[r] = "waiting" =>
            (post'[r] = "none" /\ \A i \in Ids : pendingRequests'[i] # r)
       /\ (pc[r] = "waiting" /\ queuedSawEndpoint[r] /\ pc'[r] # "waiting") =>
            (pc'[r] = "awaiting" /\ post'[r] = "inflight")
       /\ (pc[r] = "waiting" /\ pc'[r] = "done") =>
            /\ waitExpired[r]
            /\ stdout'[r] = <<ConnTimeoutLine(r)>>
            /\ post'[r] = "none"
            /\ \A i \in Ids : pendingRequests'[i] # r
    ]_vars

\* C6: every request line produces exactly one line on stdout, carrying the
\* request's identifier: never two, and eventually one, the upstream Response
\* or an error with code -32603.
C6_ExactlyOneLine ==
  /\ [](\A r \in Reqs :
          /\ Len(stdout[r]) <= 1
          /\ \A k \in 1..Len(stdout[r]) :
               /\ stdout[r][k].id = reqId[r]
               /\ stdout[r][k].kind = "error" => stdout[r][k].code = InternalError)
  /\ \A r \in Reqs : (pc[r] \in {"waiting", "awaiting"}) ~> (Len(stdout[r]) = 1)

\* C6 witness: a request that waited for the endpoint, was POSTed and got the
\* request-timeout error line.
C6_Witness ==
  \E r \in Reqs :
    /\ stdout[r] = <<ErrorLine(reqId[r], "Error: Request timeout (30s)")>>
    /\ post[r] = "inflight"

\* C7: the POSTs are issued in the order in which the lines were read.
C7_ArrivalOrder == ~postedOutOfOrder

\* C8: a waiter that is registered and not settled keeps its registry entry: no
\* later sendRequest with the same identifier replaces it.
C8_NoSilentOverwrite ==
  \A r \in Reqs : pc[r] = "awaiting" => pendingRequests[reqId[r]] = r

\* C9: at most one reconnection timer is live, and it is the one whose handle
\* the bridge holds, so that the next scheduleReconnect cancels it.
C9_OneReconnectTimer ==
  /\ liveTimers \subseteq {reconnectTimer}
  /\ Cardinality(liveTimers) <= 1

\* C9 witness: a timer armed by a stream end that followed a POST.
C9_Witness ==
  /\ liveTimers = {1}
  /\ reconnectTimer = 1
  /\ connPc = "idle"
  /\ \E r \in Reqs : post[r] # "none"

\* C10: the connection loop never stops.  Whenever connect() has returned, the
\* endpoint is cleared and a reconnection timer is pending, and a new connect
\* attempt follows.
C10_LoopNeverStops ==
  /\ [](connPc = "idle" => (jbMessageEndpoint = Null /\ liveTimers # {}))
  /\ (connPc = "idle") ~> (connPc = "fetching")

\* C10 witness: a connect attempt in progress that a reconnection timer started
\* while a request is queued.
C10_Witness ==
  /\ connPc = "fetching"
  /\ reconnectTimer # 0
  /\ \E r \in Reqs : pc[r] = "waiting"

RequestTimeoutLine(r) == ErrorLine(reqId[r], "Error: Request timeout (30s)")

\* C11: a message event whose identifier has no waiter in the registry (or that
\* carries no identifier, or no JSON) has no effect when dispatched: the state
\* after the dispatch is the state before it, field for field (registry,
\* endpoint, connection, promises, stdout).
C11_UnmatchedDropped ==
  \A ev \in MessageEvents \cup OtherEvents :
    (ev.id = 0 \/ pendingRequests[ev.id] = 0) => DispatchEvent(State, ev) = State

\* C11 witness: a request failed by its 30 s timer, its identifier no longer
\* registered, while the stream on which its late response can arrive is read.
C11_Witness ==
  \E r \in Reqs :
    /\ stdout[r] = <<RequestTimeoutLine(r)>>
    /\ pendingRequests[reqId[r]] = 0
    /\ connPc = "reading"
    /\ jbMessageEndpoint # Null

TransportErrorLine(r) == ErrorLine(reqId[r], "TypeError: fetch failed")

MessageFor(i) == [event |-> "message", data |-> "", id |-> i, json |-> TRUE]

\* C12: when the POST of a request fails, in that very step the request's
\* identifier leaves the registry, its 30 s timer is cancelled and its caller, if
\* it was still waiting, fails with the transport error; a message event for
\* that identifier dispatched right afterwards changes nothing.  From then on the
\* request is settled, has no timer and owns no registry entry.
C12_PostFailure ==
  /\ [](\A r \in Reqs :
          post[r] = "failed" =>
            /\ Settled(r)
            /\ ~timeoutLive[r]
            /\ \A i \in Ids : pendingRequests[i] # r)
  /\ [][\A r \in Reqs :
          (post[r] = "inflight" /\ post'[r] = "failed") =>
            /\ pendingRequests'[reqId[r]] = 0
            /\ ~timeoutLive'[r]
            /\ promise[r] = "pending" =>
                 (promise'[r] = "rejected" /\ stdout'[r] = <<TransportErrorLine(r)>>)
            /\ HandleResponse(State', MessageFor(reqId[r])) = State'
       ]_vars

\* C12 witness: a caller failed with the transport error while the stream on
\* which a response for its identifier can still arrive is read.
C12_Witness ==
  \E r \in Reqs :
    /\ post[r] = "failed"
    /\ stdout[r] = <<TransportErrorLine(r)>>
    /\ connPc = "reading"

\* C13: whenever a request's 30 s timer is armed the caller is still waiting and
\* its POST is in flight, and the firing of the timer removes the identifier
\* from the registry, fails the caller with the request-timeout error and leaves
\* the POST as it is; once the caller has got the request-timeout error, no later
\* step (the POST's failure, a response for the identifier) changes its outcome.
C13_RequestTimeout ==
  /\ [](\A r \in Reqs :
          timeoutLive[r] =>
            LET fired == RequestTimedOut(State, r)
            IN /\ promise[r] = "pending"
               /\ post[r] = "inflight"
               /\ fired.pendingRequests[reqId[r]] = 0
               /\ fired.promise[r] = "rejected"
               /\ fired.stdout[r] = <<RequestTimeoutLine(r)>>
               /\ fired.post[r] = post[r]
               /\ ~fired.timeoutLive[r])
  /\ [][\A r \in Reqs :
          stdout[r] = <<RequestTimeoutLine(r)>> =>
            (stdout'[r] = stdout[r] /\ promise'[r] = "rejected")
       ]_vars

\* C13 witness: a caller failed by its 30 s timer whose abandoned POST completed
\* afterwards, by failing; the caller's line is still the request-timeout error.
C13_Witness ==
  \E r \in Reqs :
    /\ stdout[r] = <<RequestTimeoutLine(r)>>
    /\ post[r] = "failed"
    /\ promise[r] = "rejected"

\* the pairs the frames of a stream stand for, in the order of the stream
RECURSIVE FramePairs(_)
FramePairs(units) ==
  IF units = <<>> THEN <<>>
  ELSE (IF Head(units).kind = "frame"
          THEN <<[event |-> Head(units).event, data |-> Decode(Head(units).data).text]>>
          ELSE <<>>)
       \o FramePairs(Tail(units))

\* a is b with some of its elements left out
RECURSIVE IsSubseq(_, _)
IsSubseq(a, b) ==
  IF a = <<>> THEN TRUE
  ELSE IF b = <<>> THEN FALSE
  ELSE IF Head(a) = Head(b) THEN IsSubseq(Tail(a), Tail(b))
  ELSE IsSubseq(a, Tail(b))

\* C14: the parser emits a pair only for a frame, with that frame's own data and
\* event name, and at most once per frame: the pairs dispatched are, in order,
\* pairs of frames of the stream, each frame used at most once.  An event line
\* that no data line precedes emits nothing, and nothing of an emitted frame is
\* left in the slots for the lines that follow.
C14_NoStaleData == IsSubseq(emitted, FramePairs(content))

\* C14 witness: a stream read to its end in which an event line without data
\* follows a frame that was emitted.
C14_Witness ==
  /\ wire = <<>>
  /\ emitted # <<>>
  /\ \E k \in 2..Len(content) :
       content[k].kind = "stray" /\ content[k - 1].kind = "frame"

\* C15: correlation is by identifier only.  A registry entry is held under the
\* identifier its owner carries; a caller is resolved only in a step that finds
\* it in the registry under its own identifier and removes that entry; and the
\* line a resolved caller gets is the Response carrying its own identifier,
\* whatever the order of the requests and of the responses.
C15_CorrelationById ==
  /\ [](/\ \A i \in Ids : pendingRequests[i] # 0 => reqId[pendingRequests[i]] = i
        /\ \A r \in Reqs :
             promise[r] = "resolved" => stdout[r] = <<ResultLine(MessageFor(reqId[r]))>>)
  /\ [][\A r \in Reqs :
          (promise[r] = "pending" /\ promise'[r] = "resolved") =>
            (pendingRequests[reqId[r]] = r /\ pendingRequests'[reqId[r]] = 0)
       ]_vars

\* C15 witness: two requests with distinct identifiers in flight, the later one
\* answered while the earlier one is still waiting for its response.
C15_Witness ==
  \E r, q \in Reqs :
    /\ r < q
    /\ reqId[r] # reqId[q]
    /\ pc[r] = "awaiting"
    /\ promise[q] = "resolved"

\* the request is one transformRequest rewrites: a tools/call with arguments
\* whose projectPath is a string classified unix
Rewritable(req) ==
  /\ req.method = ToolsCall
  /\ req.hasArguments
  /\ req.arguments[ProjectPathKey].kind = "string"
  /\ ClassifyPath(req.arguments[ProjectPathKey].str) = "unix"

\* C16: every path that classifyPath classifies as unix is classified wsl once
\* rewritten by unixToWslPath, a path with a `/@name/` segment included; and the
\* projectPath transformRequest forwards for such a path is that rewritten path.
C16_RewrittenIsWsl ==
  /\ \A key \in ArgKeys :
       (/\ request.arguments[key].kind = "string"
        /\ ClassifyPath(request.arguments[key].str) = "unix")
         => ClassifyPath(UnixToWslPath(request.arguments[key].str)) = "wsl"
  /\ (passes >= 1 /\ Rewritable(request)) =>
       /\ forwarded.arguments[ProjectPathKey] =
            StringValue(UnixToWslPath(request.arguments[ProjectPathKey].str))
       /\ ClassifyPath(forwarded.arguments[ProjectPathKey].str) = "wsl"

\* C16 witness: a unix projectPath with a virtual-workspace segment, rewritten
\* by transformRequest.
C16_Witness ==
  /\ passes >= 1
  /\ Rewritable(request)
  /\ StripWorkspace(request.arguments[ProjectPathKey].str)
       # request.arguments[ProjectPathKey].str
  /\ ClassifyPath(forwarded.arguments[ProjectPathKey].str) = "wsl"

\* the value starts with a separator (l.83)
Absolute(str) == StartsWith(str, <<Sep>>)

\* C17: for a tools/call request whose projectPath classifies as unix and yields
\* a subfolder token t, every string argument under a path-bearing key is
\* forwarded as t/<value> when it is neither absolute nor prefixed with t, and
\* unchanged when it is absolute or prefixed with t; and transformRequest applied
\* to its own output returns that output.
C17_PrependRule ==
  passes >= 1 =>
    /\ TransformRequest(forwarded) = forwarded
    /\ (/\ Rewritable(request)
        /\ ExtractProjectSubfolder(request.arguments[ProjectPathKey].str) # <<>>) =>
         LET t == ExtractProjectSubfolder(request.arguments[ProjectPathKey].str)
         IN \A key \in RelativePathKeys :
              LET v == request.arguments[key]
              IN v.kind = "string" =>
                   forwarded.arguments[key] =
                     IF ~Absolute(v.str) /\ ~StartsWith(v.str, t)
                       THEN StringValue(t \o <<Sep>> \o v.str)
                       ELSE v

\* C18: a step that loses the connection leaves the registry, the callers'
\* promises, their 30 s timers and stdout as they were; and whatever the
\* connection did since a waiter was registered, a message event for its
\* identifier resolves it, with that Response as its line.
C18_DisconnectKeepsRegistry ==
  /\ [](\A i \in Ids :
          pendingRequests[i] # 0 =>
            LET got == HandleResponse(State, MessageFor(i))
            IN /\ promise[pendingRequests[i]] = "pending"
               /\ got.promise[pendingRequests[i]] = "resolved"
               /\ got.stdout[pendingRequests[i]] = <<ResultLine(MessageFor(i))>>)
  /\ [][(connPc # "idle" /\ connPc' = "idle") =>
          /\ pendingRequests' = pendingRequests
          /\ promise' = promise
          /\ timeoutLive' = timeoutLive
          /\ stdout' = stdout
       ]_vars

\* C18 witness: a waiter registered on an earlier connection is still waiting
\* while a later connection, which has delivered no endpoint yet, is read.
C18_Witness ==
  /\ connPc = "reading"
  /\ reconnectTimer # 0
  /\ jbMessageEndpoint = Null
  /\ \E r \in Reqs : pc[r] = "awaiting" /\ pendingRequests[reqId[r]] = r

\* C19: at most one streaming connection exists.  connect() is never entered
\* past its guard while an earlier call is fetching or reading, no reconnection
\* timer is pending while a call is fetching or reading, and isConnecting is set
\* only while the fetch is awaited.
C19_OneConnection ==
  /\ ~overlapped
  /\ connPc # "idle" => liveTimers = {}
  /\ isConnecting => connPc = "fetching"

\* C19 witness: a stream opened by a reconnection is read and has delivered its
\* endpoint.
C19_Witness ==
  /\ connPc = "reading"
  /\ reconnectTimer # 0
  /\ liveTimers = {}
  /\ jbMessageEndpoint # Null

\* C20: the cleanup of one request removes only its own waiter: a registry entry
\* is removed only in a step that settles the request owning it.
C20_OwnCleanupOnly ==
  [][\A q \in Reqs : \A i \in Ids :
       (pendingRequests[i] = q /\ pendingRequests'[i] = 0) => promise'[q] # "pending"
    ]_vars

=============================================================================
